---- MODULE Spec2Model ----
(***************************************************************************)
(* Model of the narration handler of src/api/narrate.js:                   *)
(* POST /api/narrate {title, campaign, text, voiceId?}.                    *)
(*                                                                         *)
(* Strings are sequences of one-character tokens; the whitespace           *)
(* characters are the tokens "SP", "TAB", "CR" and "LF".  A JavaScript     *)
(* undefined is the one-element sequence Undefined, whose token is no      *)
(* character.  Each request is one invocation of the async handler; an     *)
(* action is the code the handler runs between two awaits, together with   *)
(* the answer of the external service that resumes it.                     *)
(***************************************************************************)
EXTENDS Integers, Sequences, FiniteSets, TLC

\* The concurrent invocations of the handler.
Requests == {"r1", "r2"}

Undefined == <<"undefined">>

Whitespace == {"SP", "TAB", "CR", "LF"}

\* JavaScript truthiness of a string-or-undefined value: !v.
Falsy(v) == v = Undefined \/ v = <<>>

\* String(s || '')
Str(s) == IF Falsy(s) THEN <<>> ELSE s

RECURSIVE trimStart(_)
trimStart(s) ==
  IF s # <<>> /\ Head(s) \in Whitespace THEN trimStart(Tail(s)) ELSE s

RECURSIVE trimEnd(_)
trimEnd(s) ==
  IF s # <<>> /\ s[Len(s)] \in Whitespace
  THEN trimEnd(SubSeq(s, 1, Len(s) - 1))
  ELSE s

\* String.prototype.trim
trim(s) == trimEnd(trimStart(s))

\* .replace(/\r\n/g, '\n'): leftmost, non-overlapping matches.
RECURSIVE replaceCRLF(_)
replaceCRLF(s) ==
  IF Len(s) < 2 THEN s
  ELSE IF s[1] = "CR" /\ s[2] = "LF"
       THEN <<"LF">> \o replaceCRLF(SubSeq(s, 3, Len(s)))
       ELSE <<s[1]>> \o replaceCRLF(Tail(s))

\* The string left after the longest prefix of s made of characters of set.
RECURSIVE dropRun(_, _)
dropRun(s, set) ==
  IF s # <<>> /\ Head(s) \in set THEN dropRun(Tail(s), set) ELSE s

\* .replace(/[ \t]+/g, ' ')
RECURSIVE collapseBlanks(_)
collapseBlanks(s) ==
  IF s = <<>> THEN <<>>
  ELSE IF Head(s) \in {"SP", "TAB"}
       THEN <<"SP">> \o collapseBlanks(dropRun(s, {"SP", "TAB"}))
       ELSE <<Head(s)>> \o collapseBlanks(Tail(s))

\* .replace(/\n{3,}/g, '\n\n'): a greedy run of three or more LF becomes two.
RECURSIVE capNewlines(_)
capNewlines(s) ==
  IF s = <<>> THEN <<>>
  ELSE IF Head(s) = "LF"
       THEN LET rest == dropRun(s, {"LF"})
                run == Len(s) - Len(rest)
            IN  (IF run >= 3 THEN <<"LF", "LF">> ELSE SubSeq(s, 1, run))
                \o capNewlines(rest)
       ELSE <<Head(s)>> \o capNewlines(Tail(s))

normalizeText(s) == capNewlines(collapseBlanks(replaceCRLF(trim(Str(s)))))

\* sha256(s) cut to n hex digits.  The digest is not computed: it is a value
\* determined by (s, n), distinct for distinct inputs.
digestN(s, n) == [sha256 |-> s, n |-> n]

WordChars == {"a", "b", "A", "B", "C", "D", "v", "w", "_", "-"}

\* The characters of the model.
Chars == WordChars \cup Whitespace \cup {":", "/"}

\* .replace(/[^\w\-]+/g, '_')
RECURSIVE replaceNonWord(_)
replaceNonWord(s) ==
  IF s = <<>> THEN <<>>
  ELSE IF Head(s) \notin WordChars
       THEN <<"_">> \o replaceNonWord(dropRun(s, Chars \ WordChars))
       ELSE <<Head(s)>> \o replaceNonWord(Tail(s))

\* .replace(/_+/g, '_')
RECURSIVE collapseUnderscores(_)
collapseUnderscores(s) ==
  IF s = <<>> THEN <<>>
  ELSE IF Head(s) = "_"
       THEN <<"_">> \o collapseUnderscores(dropRun(s, {"_"}))
       ELSE <<Head(s)>> \o collapseUnderscores(Tail(s))

\* The alphabet holds no accented letter, so NFD and the removal of the
\* combining marks change nothing; .slice(0, 120) cuts the result.
safeName(s) ==
  LET t == collapseUnderscores(replaceNonWord(trim(Str(s))))
  IN  SubSeq(t, 1, IF Len(t) < 120 THEN Len(t) ELSE 120)

(***************************************************************************)
(* Configuration and requests                                              *)
(***************************************************************************)

\* process.env as the handler reads it (lines 115-120); a variable that is
\* not set is Undefined.  BUCKET always has a value (default 'audio').
FullEnv(isPublic) ==
  [ELEVEN_API_KEY |-> <<"k">>, ELEVEN_VOICE_ID |-> <<"v">>,
   SUPABASE_URL |-> <<"u">>, SUPABASE_SERVICE_ROLE_KEY |-> <<"s">>,
   IS_PUBLIC_BUCKET |-> isPublic]

EnvNames ==
  {"ELEVEN_API_KEY", "ELEVEN_VOICE_ID", "SUPABASE_URL", "SUPABASE_SERVICE_ROLE_KEY"}

Envs ==
  {FullEnv(p) : p \in BOOLEAN}
    \cup {[FullEnv(p) EXCEPT ![n] = Undefined] : p \in BOOLEAN, n \in EnvNames}

Methods == {"POST", "GET", "OPTIONS", "PUT"}

Body(title, campaign, text, voiceId) ==
  [title |-> title, campaign |-> campaign, text |-> text, voiceId |-> voiceId]

\* req.body || {} of a request without a body
NoBody == Body(Undefined, Undefined, Undefined, Undefined)

Text1 == <<"a", "SP", "b">>
Text1Spaced == <<"SP", "a", "TAB", "SP", "b", "CR", "LF">>

\* The request bodies of the model.
Bodies ==
  { Body(<<"A">>, <<"C">>, Text1, Undefined),
    Body(<<"B">>, <<"D">>, Text1, Undefined),
    Body(<<"A">>, <<"C">>, Text1Spaced, <<"w">>),
    Body(<<"SP">>, <<"C">>, Text1, Undefined),
    Body(<<"A">>, <<"TAB", "SP">>, Text1, Undefined),
    Body(Undefined, <<"C">>, Text1, Undefined),
    Body(<<>>, <<"C">>, Text1, Undefined),
    Body(<<"A">>, Undefined, Text1, Undefined),
    Body(<<"A">>, <<>>, Text1, Undefined),
    Body(<<"A">>, <<"C">>, Undefined, Undefined),
    Body(<<"A">>, <<"C">>, <<>>, Undefined),
    Body(<<"A">>, <<"C">>, <<"SP", "LF">>, Undefined) }

VARIABLES
  env,      \* the configuration of the process
  storage,  \* the objects of the bucket: a set of [path, audio]
  h,        \* per request: the state of its invocation of the handler
  call      \* a call of a function of the module taken alone: its inputs
            \* and its results

vars == <<env, storage, h, call>>

(***************************************************************************)
(* Identifier, object path, URLs                                           *)
(***************************************************************************)

NoId == digestN(<<>>, 0)

NoPath == [folder |-> "", id |-> NoId]

\* `${VOICE}::${normalized}` (line 140)
hashInput(VOICE, normalized) == VOICE \o <<":", ":">> \o normalized

\* Derive with the title in the hashed string, so that the identifier and
\* the path follow the title.
Derive_titleInId(body) ==
  LET narrationText == trim(body.text)
      normalized == normalizeText(narrationText)
      VOICE == IF Falsy(body.voiceId) THEN env.ELEVEN_VOICE_ID ELSE body.voiceId
      id == digestN(VOICE \o <<":", ":">> \o normalized \o body.title, 12)
  IN  [narrationText |-> narrationText,
       normalized |-> normalized,
       VOICE |-> VOICE,
       id |-> id,
       objectPath |-> [folder |-> "cards", id |-> id],
       niceFilename |-> <<safeName(body.campaign), safeName(body.title), id>>]

\* What the handler derives from a validated body (lines 133-147).
Derive(body) ==
  LET narrationText == trim(body.text)
      normalized == normalizeText(narrationText)
      VOICE == IF Falsy(body.voiceId) THEN env.ELEVEN_VOICE_ID ELSE body.voiceId
      id == digestN(hashInput(VOICE, normalized), 12)
  IN  [narrationText |-> narrationText,
       normalized |-> normalized,
       VOICE |-> VOICE,
       id |-> id,
       objectPath |-> [folder |-> "cards", id |-> id],
       niceFilename |-> <<safeName(body.campaign), safeName(body.title), id>>]

NoFilename == <<<<>>, <<>>, NoId>>

\* The locals of an invocation that has not derived them (yet).
NoDerived ==
  [narrationText |-> <<>>, normalized |-> <<>>, VOICE |-> <<>>, id |-> NoId,
   objectPath |-> NoPath, niceFilename |-> NoFilename]

\* `${supabaseUrl}/storage/v1/object/public/${bucket}/${objectPath}`
publicUrl(objectPath) == [kind |-> "public", path |-> objectPath, signed |-> <<>>]

\* `${supabaseUrl}${signed.startsWith('/') ? '' : '/'}${signed}`
signedUrl(signed) ==
  [kind |-> "signed", path |-> NoPath,
   signed |-> IF Head(signed) = "/" THEN signed ELSE <<"/">> \o signed]

NoUrl == [kind |-> "none", path |-> NoPath, signed |-> <<>>]

\* The answers of the sign request: the fetch rejects ("throw"), or it
\* resolves with a status and a body; json is "bad" when the body is not
\* JSON, and signed is the signedURL/signedUrl field (<<>> when absent or '').
SignAnswer(fetch, json, signed) == [fetch |-> fetch, json |-> json, signed |-> signed]

NoSignCall == SignAnswer("none", "none", <<>>)

SignAnswers ==
  { SignAnswer("throw", "none", <<>>),
    SignAnswer("notok", "none", <<>>),
    SignAnswer("ok", "bad", <<>>),
    SignAnswer("ok", "ok", <<>>),
    SignAnswer("ok", "ok", <<"/", "a">>),
    SignAnswer("ok", "ok", <<"a">>) }

\* getAccessUrl (lines 65-91), given the answer of its sign request (none is
\* made for a public bucket): the URL it returns, or raised when it throws.
getAccessUrl(isPublicBucket, objectPath, answer) ==
  IF isPublicBucket THEN [raised |-> FALSE, url |-> publicUrl(objectPath)]
  ELSE IF answer.fetch = "throw" THEN [raised |-> TRUE, url |-> NoUrl]
  ELSE IF answer.fetch # "ok" THEN [raised |-> FALSE, url |-> publicUrl(objectPath)]
  ELSE LET data == IF answer.json = "ok" THEN answer.signed ELSE <<>>
       IN  IF data # <<>>
           THEN [raised |-> FALSE, url |-> signedUrl(data)]
           ELSE [raised |-> FALSE, url |-> publicUrl(objectPath)]

\* objectExists without its try/catch: a fetch that throws raises.
objectExists_noCatch(isPublicBucket, head, tiny) ==
  IF head = "throw" \/ tiny = "throw" THEN "raise"
  ELSE IF isPublicBucket
  THEN IF head = "ok" THEN "true"
       ELSE IF tiny = "none" THEN "next"
       ELSE IF tiny = "ok" THEN "true" ELSE "false"
  ELSE IF tiny = "ok" THEN "true" ELSE "false"

\* objectExists (lines 41-63), given the answers of its fetches: "ok" (2xx,
\* 206 included), "notok", "throw", or "none" for a fetch that is not made.
\* The result is "true", "false", "next" (the range request is to be made)
\* or "raise".
objectExists(isPublicBucket, head, tiny) ==
  IF isPublicBucket
  THEN IF head = "throw" THEN "false"
       ELSE IF head = "ok" THEN "true"
       ELSE IF tiny = "none" THEN "next"
       ELSE IF tiny = "ok" THEN "true" ELSE "false"
  ELSE IF tiny = "ok" THEN "true" ELSE "false"

(***************************************************************************)
(* Responses                                                               *)
(***************************************************************************)

\* res.status(status).json(body): keys are the fields of the body.
Res(status, keys, id, url, filename, error) ==
  [status |-> status, keys |-> keys, id |-> id, url |-> url,
   filename |-> filename, error |-> error]

NoResp == Res(0, {}, NoId, NoUrl, NoFilename, "")

ErrorRes(status, error) == Res(status, {"ok", "error"}, NoId, NoUrl, NoFilename, error)

FailureRes(status, error) ==
  Res(status, {"ok", "error", "detail"}, NoId, NoUrl, NoFilename, error)

(***************************************************************************)
(* One invocation of the handler (lines 93-233)                            *)
(***************************************************************************)

\* The audio the synthesis service makes of a request it received.
Audio(voice, text, by) == [voice |-> voice, text |-> text, by |-> by]

NoAudio == Audio(<<>>, <<>>, "")

TtsFailStatuses == {401, 429}

UploadFailStatuses == {403, 413}

\* pc is the await the invocation is suspended at; d holds the locals of
\* lines 133-147; head, tiny, tts, up and
\* sign are the answers its fetches got; nProbe, nTts, nUpload and nSign
\* count the fetches it issued; before holds the requests that had been
\* answered when this one arrived; deadlinePassed says that TTS_TIMEOUT_MS
\* went by before the synthesis call was over.
Idle ==
  [pc |-> "idle", method |-> "", body |-> NoBody, d |-> NoDerived,
   head |-> "none", tiny |-> "none", exists |-> "unknown",
   tts |-> "none", ttsStatus |-> 0, deadlinePassed |-> FALSE,
   mp3Buffer |-> NoAudio, up |-> "none", upStatus |-> 0,
   sign |-> NoSignCall, resp |-> NoResp,
   nProbe |-> 0, nTts |-> 0, nUpload |-> 0, nSign |-> 0, before |-> {}]

\* return res.status(..).json(..)
respond(x, response) == [x EXCEPT !.pc = "done", !.resp = response]

\* The outer catch (lines 230-232).
serverError(x) == respond(x, ErrorRes(500, "e.message"))

\* Line 122 without the test of ELEVEN_VOICE_ID.
MissingEnv_noVoice == \E n \in EnvNames \ {"ELEVEN_VOICE_ID"} : Falsy(env[n])

\* Line 122.
MissingEnv == \E n \in EnvNames : Falsy(env[n])

\* Line 129 with the text as the only required field.
MissingField_textOnly(body) == Falsy(body.text)

\* Line 129.
MissingField(body) == Falsy(body.title) \/ Falsy(body.campaign) \/ Falsy(body.text)

\* Lines 133-134.
EmptyText(body) == trim(body.text) = <<>>

\* The first fetch of objectExists (lines 46 and 53).
startProbe(x) ==
  [x EXCEPT !.pc = IF env.IS_PUBLIC_BUCKET THEN "probe_head" ELSE "probe_tiny",
            !.nProbe = @ + 1]

\* Lines 94-156: from the call of the handler to its first await.
handle(x, method, body) ==
  LET y == [x EXCEPT !.method = method, !.body = body]
  IN  IF method = "OPTIONS" THEN respond(y, Res(200, {}, NoId, NoUrl, NoFilename, ""))
      ELSE IF method = "GET"
        THEN respond(y, Res(200, {"ok", "hint"}, NoId, NoUrl, NoFilename, ""))
      ELSE IF method # "POST" THEN respond(y, ErrorRes(405, "Method not allowed"))
      ELSE IF MissingEnv THEN respond(y, ErrorRes(500, "Missing environment variables"))
      ELSE IF MissingField(body)
        THEN respond(y, ErrorRes(400, "title, campaign, and text are required"))
      ELSE IF EmptyText(body) THEN respond(y, ErrorRes(400, "text must be non-empty"))
      ELSE startProbe([y EXCEPT !.d = Derive(body)])

\* Lines 166 and 229: the 200 of the handler, once getAccessUrl has its answer.
respondOk(x, answer) ==
  LET d == x.d
      a == getAccessUrl(env.IS_PUBLIC_BUCKET, d.objectPath, answer)
      keys == {"ok", "id", "url", "filename"}
                \cup (IF x.mp3Buffer # NoAudio THEN {"bytes"} ELSE {})
  IN  IF a.raised THEN serverError([x EXCEPT !.sign = answer])
      ELSE respond([x EXCEPT !.sign = answer],
                   Res(200, keys, d.id, a.url, d.niceFilename, ""))

\* The call of getAccessUrl (lines 159 and 221): a public bucket needs no
\* fetch, a private one awaits the sign request.
resolve(x) ==
  IF env.IS_PUBLIC_BUCKET THEN respondOk(x, NoSignCall)
  ELSE [x EXCEPT !.pc = "sign", !.nSign = @ + 1]

\* Lines 170-189: the timer is set and the synthesis fetch is issued.
startTts(x) == [x EXCEPT !.pc = "tts_fetch", !.tts = "pending", !.nTts = @ + 1]

\* Lines 158-171: what follows the answer of objectExists.
afterProbe(x, exists) ==
  IF exists THEN resolve([x EXCEPT !.exists = "true"])
  ELSE startTts([x EXCEPT !.exists = "false"])

\* What a fetch of the probe can answer for objectPath: a 2xx only when the
\* object is stored, a failure at any time.
ProbeAnswers(objectPath) ==
  {"notok", "throw"}
    \cup (IF \E o \in storage : o.path = objectPath THEN {"ok"} ELSE {})

\* What objectExists does with the answers it has got so far.
probed(x) ==
  LET e == objectExists(env.IS_PUBLIC_BUCKET, x.head, x.tiny)
  IN  IF e = "raise" THEN serverError(x)
      ELSE IF e = "next" THEN [x EXCEPT !.pc = "probe_tiny", !.nProbe = @ + 1]
      ELSE afterProbe(x, e = "true")

\* x.put, upsert: the object at path is replaced.
put(objects, path, audio) ==
  {o \in objects : o.path # path} \cup {[path |-> path, audio |-> audio]}

(***************************************************************************)
(* Actions                                                                 *)
(***************************************************************************)

\* No function is called alone while the handler runs.
NoCall == [stage |-> "none"]

Init ==
  /\ env \in Envs
  /\ storage = {}
  /\ h = [r \in Requests |-> Idle]
  /\ call = NoCall

\* A request arrives and the handler runs to its first await.
Receive(r) ==
  /\ h[r].pc = "idle"
  /\ \E method \in Methods, body \in Bodies \cup {NoBody} :
       /\ method # "POST" => body = NoBody
       /\ h' = [h EXCEPT ![r] =
                  handle([@ EXCEPT !.before = {q \in Requests : h[q].pc = "done"}],
                         method, body)]
  /\ UNCHANGED <<env, storage, call>>

\* Line 46: the HEAD of a public bucket is answered.
ProbeHead(r) ==
  /\ h[r].pc = "probe_head"
  /\ \E answer \in ProbeAnswers(h[r].d.objectPath) :
       h' = [h EXCEPT ![r] = probed([@ EXCEPT !.head = answer])]
  /\ UNCHANGED <<env, storage, call>>

\* Lines 48 and 53: the range request is answered.
ProbeTiny(r) ==
  /\ h[r].pc = "probe_tiny"
  /\ \E answer \in ProbeAnswers(h[r].d.objectPath) :
       h' = [h EXCEPT ![r] = probed([@ EXCEPT !.tiny = answer])]
  /\ UNCHANGED <<env, storage, call>>

\* Lines 190-194: the catch around the synthesis fetch.
ttsCatch(x, why) ==
  respond([x EXCEPT !.tts = why],
          Res(202, {"ok", "status", "id", "hint"}, x.d.id, NoUrl,
              NoFilename, ""))

\* Line 171: the timer fires while the fetch is pending; the abort rejects
\* the fetch and the handler resumes in its catch.
TimerFires(r) ==
  /\ h[r].pc = "tts_fetch"
  /\ h' = [h EXCEPT ![r] = ttsCatch([@ EXCEPT !.deadlinePassed = TRUE], "timeout")]
  /\ UNCHANGED <<env, storage, call>>

\* The synthesis fetch rejects for another reason (no connection, DNS, TLS).
TtsRejected(r) ==
  /\ h[r].pc = "tts_fetch"
  /\ h' = [h EXCEPT ![r] = ttsCatch(@, "error")]
  /\ UNCHANGED <<env, storage, call>>

\* Lines 195-202 without the test of line 197: the bytes of a failed
\* synthesis response are read and uploaded.
ttsHeaders_noCheck(x, status) ==
  [x EXCEPT !.tts = IF status = 200 THEN "ok" ELSE "notok",
            !.ttsStatus = status, !.pc = "tts_body"]

\* Lines 195-202: the headers of the synthesis response arrive; the timer is
\* cleared and the handler awaits the body.
ttsHeaders(x, status) ==
  IF status = 200
  THEN [x EXCEPT !.tts = "ok", !.ttsStatus = status, !.pc = "tts_body"]
  ELSE [x EXCEPT !.tts = "notok", !.ttsStatus = status, !.pc = "tts_text"]

TtsResponse(r) ==
  /\ h[r].pc = "tts_fetch"
  /\ \E status \in {200} \cup TtsFailStatuses :
       h' = [h EXCEPT ![r] = ttsHeaders(@, status)]
  /\ UNCHANGED <<env, storage, call>>

\* TTS_TIMEOUT_MS after line 171 goes by while the handler, its timer
\* cleared, awaits the body of the synthesis response.
DeadlinePasses(r) ==
  /\ h[r].pc \in {"tts_body", "tts_text"}
  /\ ~h[r].deadlinePassed
  /\ h' = [h EXCEPT ![r].deadlinePassed = TRUE]
  /\ UNCHANGED <<env, storage, call>>

\* Lines 198-199 answering 500 whatever the status of the service.
ttsFailed_500(x) == respond(x, FailureRes(500, "ElevenLabs TTS failed"))

\* Lines 198-199 without the return: the failure is answered and the
\* handler goes on to read the bytes.
ttsFailed_noReturn(x) ==
  [x EXCEPT !.resp = FailureRes(x.ttsStatus, "ElevenLabs TTS failed"),
            !.pc = "tts_body"]

\* Lines 198-199: the text of a failed synthesis response (or '') is read.
ttsFailed(x) == respond(x, FailureRes(x.ttsStatus, "ElevenLabs TTS failed"))

TtsErrorText(r) ==
  /\ h[r].pc = "tts_text"
  /\ h' = [h EXCEPT ![r] = ttsFailed(@)]
  /\ UNCHANGED <<env, storage, call>>

\* Lines 174-188 sending the trimmed text instead of the canonical one.
ttsRequest_raw(d) == [voice |-> d.VOICE, text |-> d.narrationText]

\* Lines 174-188: the voice in the URL and the text in the body of the
\* synthesis request.
ttsRequest(d) == [voice |-> d.VOICE, text |-> d.normalized]

\* Lines 202-214: the bytes are read and the upload is issued.
startUpload(x, audio) ==
  [x EXCEPT !.mp3Buffer = audio, !.pc = "upload", !.nUpload = @ + 1]

TtsBody(r) ==
  /\ h[r].pc = "tts_body"
  /\ \/ h' = [h EXCEPT ![r] = startUpload(@, Audio(ttsRequest(@.d).voice, ttsRequest(@.d).text, r))]
     \/ h' = [h EXCEPT ![r] = serverError(@)]  \* arrayBuffer() rejects
  /\ UNCHANGED <<env, storage, call>>

\* Lines 216-227 with a failed upload tried a second time.
uploaded_retry(x, answer, status) ==
  IF answer = "throw" THEN serverError([x EXCEPT !.up = answer])
  ELSE IF answer = "notok"
    THEN IF x.nUpload < 2
         THEN [x EXCEPT !.nUpload = @ + 1]
         ELSE respond([x EXCEPT !.up = answer, !.upStatus = status],
                      FailureRes(status, "Supabase upload failed"))
  ELSE resolve([x EXCEPT !.up = answer, !.upStatus = status])

\* Lines 216-227 without the test of line 216: a refused upload is taken
\* for a stored object.
uploaded_noCheck(x, answer, status) ==
  IF answer = "throw" THEN serverError([x EXCEPT !.up = answer])
  ELSE resolve([x EXCEPT !.up = answer, !.upStatus = status])

\* Lines 216-227: what follows the answer of the upload.
uploaded(x, answer, status) ==
  IF answer = "throw" THEN serverError([x EXCEPT !.up = answer])
  ELSE IF answer = "notok"
    THEN respond([x EXCEPT !.up = answer, !.upStatus = status],
                 FailureRes(status, "Supabase upload failed"))
  ELSE resolve([x EXCEPT !.up = answer, !.upStatus = status])

\* Line 211 without the x-upsert header.
xUpsert_absent == FALSE

\* Line 211: 'x-upsert': 'true'.
xUpsert == TRUE

\* The storage service refuses an upload to a path that holds an object
\* unless the request asks for an upsert.
duplicate(objects, path) == ~xUpsert /\ \E o \in objects : o.path = path

\* The storage service handles the upload and the handler resumes.  When the
\* fetch rejects, the object may or may not have been stored.
Upload(r) ==
  /\ h[r].pc = "upload"
  /\ LET path == h[r].d.objectPath
         dup == duplicate(storage, path)
         stored == IF dup THEN storage ELSE put(storage, path, h[r].mp3Buffer)
     IN  \/ /\ ~dup
            /\ storage' = stored
            /\ h' = [h EXCEPT ![r] = uploaded(@, "ok", 200)]
         \/ /\ storage' = storage
            /\ \E status \in (IF dup THEN {409} ELSE UploadFailStatuses) :
                 h' = [h EXCEPT ![r] = uploaded(@, "notok", status)]
         \/ /\ storage' \in {storage, stored}
            /\ h' = [h EXCEPT ![r] = uploaded(@, "throw", 0)]
  /\ UNCHANGED <<env, call>>

\* Lines 71-90: the sign request of a private bucket is answered.
Sign(r) ==
  /\ h[r].pc = "sign"
  /\ \E answer \in SignAnswers : h' = [h EXCEPT ![r] = respondOk(@, answer)]
  /\ UNCHANGED <<env, storage, call>>

Next ==
  \E r \in Requests :
    \/ Receive(r)
    \/ ProbeHead(r)
    \/ ProbeTiny(r)
    \/ TimerFires(r)
    \/ TtsRejected(r)
    \/ TtsResponse(r)
    \/ DeadlinePasses(r)
    \/ TtsErrorText(r)
    \/ TtsBody(r)
    \/ Upload(r)
    \/ Sign(r)

Spec == Init /\ [][Next]_vars

\* A call that is pending is eventually answered or throws: the probe, the
\* upload and the sign request by the transport, the synthesis fetch at the
\* latest by the abort of line 171.  Nothing makes the body of a synthesis
\* response end: the timer is cleared at line 195, before lines 198 and 202
\* read it.
Returns(r) ==
  /\ WF_vars(ProbeHead(r))
  /\ WF_vars(ProbeTiny(r))
  /\ WF_vars(TimerFires(r) \/ TtsRejected(r) \/ TtsResponse(r))
  /\ WF_vars(Upload(r))
  /\ WF_vars(Sign(r))

SpecLive == Init /\ [][Next]_vars /\ \A r \in Requests : Returns(r)

(***************************************************************************)
(* normalizeText taken alone                                               *)
(***************************************************************************)

\* The longest text given to normalizeText.
MaxLen == 5

TextChars == {"a", "SP", "TAB", "CR", "LF"}

\* The strings of at most n characters of chars.
Strings(chars, n) == UNION {[1..k -> chars] : k \in 0..n}

InitCanon ==
  /\ env = FullEnv(TRUE)
  /\ storage = {}
  /\ h = [r \in Requests |-> Idle]
  /\ call \in {[stage |-> "input", x |-> x, once |-> <<>>, twice |-> <<>>] :
                 x \in Strings(TextChars, MaxLen)}

\* normalizeText(x)
Canonicalize ==
  /\ call.stage = "input"
  /\ call' = [call EXCEPT !.stage = "once", !.once = normalizeText(call.x)]
  /\ UNCHANGED <<env, storage, h>>

\* normalizeText(normalizeText(x))
CanonicalizeAgain ==
  /\ call.stage = "once"
  /\ call' = [call EXCEPT !.stage = "twice", !.twice = normalizeText(call.once)]
  /\ UNCHANGED <<env, storage, h>>

NextCanon == Canonicalize \/ CanonicalizeAgain

SpecCanon == InitCanon /\ [][NextCanon]_vars

(***************************************************************************)
(* The derivation of the identifier taken alone                            *)
(***************************************************************************)

\* The longest voiceId and the longest text given to the derivation.
MaxIdLen == 2

\* Bodies with a caller-supplied voiceId and a text, both of letters and
\* colons.
IdBodies ==
  {Body(<<"A">>, <<"C">>, text, voiceId) :
     text \in Strings({"b", ":"}, MaxIdLen) \ {<<>>},
     voiceId \in Strings({"w", ":"}, MaxIdLen) \ {<<>>}}

InitHash ==
  /\ env = FullEnv(TRUE)
  /\ storage = {}
  /\ h = [r \in Requests |-> Idle]
  /\ call \in {[stage |-> "input", b1 |-> b1, b2 |-> b2,
                 d1 |-> NoDerived, d2 |-> NoDerived] : b1, b2 \in IdBodies}

\* Lines 133-147 for each of the two bodies.
DeriveBoth ==
  /\ call.stage = "input"
  /\ call' = [call EXCEPT !.stage = "derived",
                          !.d1 = Derive(call.b1), !.d2 = Derive(call.b2)]
  /\ UNCHANGED <<env, storage, h>>

NextHash == DeriveBoth

SpecHash == InitHash /\ [][NextHash]_vars

(***************************************************************************)
(* Claims                                                                  *)
(***************************************************************************)

Done(r) == h[r].pc = "done"

\* The request is a POST that the handler took with the configuration present.
Posted(r) == h[r].pc # "idle" /\ h[r].method = "POST" /\ ~MissingEnv

\* The fields of the body of the 200 on the cache path.
HitKeys == {"ok", "id", "url", "filename"}

\* C1: a validated POST whose existence probe reports the object ends with
\* 200 {ok, id, url, filename} without bytes, and makes no synthesis call
\* and no upload.
C1_CacheHitEnds200 ==
  \A r \in Requests :
    h[r].exists = "true" =>
      /\ h[r].nTts = 0 /\ h[r].nUpload = 0
      /\ Done(r) =>
           /\ h[r].resp.status = 200
           /\ h[r].resp.keys = HitKeys
           /\ h[r].resp.id = h[r].d.id

\* Two probed requests with the same voice and the same text.
SameVoiceText(r, q) ==
  /\ h[r].nProbe > 0 /\ h[q].nProbe > 0
  /\ h[r].body.text = h[q].body.text
  /\ h[r].d.VOICE = h[q].d.VOICE

\* q was answered 200 after synthesis and upload before r arrived.
PublishedBefore(q, r) ==
  /\ q \in h[r].before
  /\ h[q].resp.status = 200 /\ h[q].nTts = 1 /\ h[q].up = "ok"

SameIdAndPath(r, q) ==
  /\ h[r].d.id = h[q].d.id
  /\ h[r].d.objectPath = h[q].d.objectPath

\* C2 as stated: requests with the same voice and text have the same id and
\* objectPath, and once one has ended with 200 after synthesis and upload,
\* every later one makes no synthesis call and ends with 200, in
\* public-bucket mode with the same url.
C2_LaterRequestNeverSynthesizes ==
  \A r, q \in Requests :
    r # q /\ SameVoiceText(r, q) =>
      /\ SameIdAndPath(r, q)
      /\ PublishedBefore(q, r) =>
           /\ h[r].nTts = 0
           /\ Done(r) =>
                /\ h[r].resp.status = 200
                /\ env.IS_PUBLIC_BUCKET => h[r].resp.url = h[q].resp.url

\* C2 amended: requests with the same voice and text have the same id and
\* objectPath, and once one has ended with 200 after synthesis and upload,
\* every later one whose probe finds the object makes no synthesis call and
\* no upload; in public-bucket mode it ends with 200 and the same url, in
\* private-bucket mode with 200 or, when its sign request throws, with 500.
C2_LaterHitNeverSynthesizes ==
  \A r, q \in Requests :
    r # q /\ SameVoiceText(r, q) =>
      /\ SameIdAndPath(r, q)
      /\ PublishedBefore(q, r) /\ h[r].exists = "true" =>
           /\ h[r].nTts = 0 /\ h[r].nUpload = 0
           /\ Done(r) =>
                IF env.IS_PUBLIC_BUCKET
                THEN h[r].resp.status = 200 /\ h[r].resp.url = h[q].resp.url
                ELSE \/ h[r].resp.status = 200
                     \/ h[r].resp.status = 500 /\ h[r].sign.fetch = "throw"

\* A later request with another title and campaign is answered from the
\* cache with the url of the first, in public-bucket mode.
C2_Witness ==
  \E r, q \in Requests :
    /\ r # q /\ SameVoiceText(r, q) /\ PublishedBefore(q, r)
    /\ h[r].body.title # h[q].body.title
    /\ h[r].body.campaign # h[q].body.campaign
    /\ env.IS_PUBLIC_BUCKET
    /\ Done(r) /\ h[r].exists = "true"
    /\ h[r].resp.status = 200 /\ h[r].resp.url = h[q].resp.url

\* C3: on a cache miss, when the timeout goes by before the synthesis call
\* is over, the request ends with 202 {ok, status, id, hint} carrying its
\* content identifier, and makes no upload and no URL resolution.
C3_TimeoutEnds202 ==
  \A r \in Requests :
    h[r].deadlinePassed /\ Done(r) =>
      /\ h[r].resp.status = 202
      /\ h[r].resp.keys = {"ok", "status", "id", "hint"}
      /\ h[r].resp.id = h[r].d.id
      /\ h[r].nUpload = 0 /\ h[r].nSign = 0

\* The sign request was made and gave no signed URL.
SignFailed(r) ==
  \/ h[r].sign.fetch \in {"throw", "notok"}
  \/ h[r].sign.fetch = "ok" /\ (h[r].sign.json = "bad" \/ h[r].sign.signed = <<>>)

\* C4: in private-bucket mode, when the sign request fails in any way,
\* getAccessUrl returns the public URL and raises nothing, so the request
\* ends with 200 and that url.
C4_SignFailureFallsBack ==
  \A r \in Requests :
    Done(r) /\ SignFailed(r) =>
      /\ h[r].resp.status = 200
      /\ h[r].resp.url = publicUrl(h[r].d.objectPath)

\* A fetch of the probe threw, or its last fetch answered a non-success status.
ProbeFailed(r) == h[r].head = "throw" \/ h[r].tiny \in {"notok", "throw"}

\* C5: in both bucket modes, a probe that ends in a network error or a
\* non-success status makes objectExists return false without raising: no
\* response is sent for it and the handler goes on to the synthesis call.
C5_ProbeFailureIsMiss ==
  \A r \in Requests :
    ProbeFailed(r) => h[r].exists = "false" /\ h[r].nTts = 1 /\ h[r].tts # "none"

C5_Witness ==
  \E r, q \in Requests :
    /\ h[r].head = "throw" /\ h[r].pc = "tts_fetch"
    /\ h[q].tiny = "throw" /\ h[q].pc = "tts_fetch"

\* C6: with the configuration present, a POST whose text is empty or
\* missing, or whose title or campaign is missing, ends with 400 and makes
\* no external call.
C6_MissingFieldEnds400 ==
  \A r \in Requests :
    /\ Posted(r)
    /\ \/ h[r].body.text \in {Undefined, <<>>}
       \/ h[r].body.title = Undefined
       \/ h[r].body.campaign = Undefined
    => /\ Done(r)
       /\ h[r].resp.status = 400 /\ h[r].resp.keys = {"ok", "error"}
       /\ h[r].nProbe = 0 /\ h[r].nTts = 0 /\ h[r].nUpload = 0 /\ h[r].nSign = 0

C6_Witness ==
  \E r, q \in Requests :
    /\ Posted(r) /\ h[r].body.title = Undefined /\ h[r].resp.status = 400
    /\ Posted(q) /\ h[q].body.text = <<>> /\ h[q].resp.status = 400

\* A value that is missing or empty once trimmed.
Blank(v) == v = Undefined \/ trim(v) = <<>>

\* C7: a POST with a title, campaign or text that is empty after trimming is
\* rejected with 400 and reaches neither the probe, the synthesis nor the
\* upload.
C7_BlankFieldEnds400 ==
  \A r \in Requests :
    /\ Posted(r)
    /\ Blank(h[r].body.title) \/ Blank(h[r].body.campaign) \/ Blank(h[r].body.text)
    => /\ h[r].resp.status = 400
       /\ h[r].nProbe = 0 /\ h[r].nTts = 0 /\ h[r].nUpload = 0

FailureKeys == {"ok", "error", "detail"}

\* C8: a non-success status s of the synthesis service ends the request with
\* status s and {ok, error, detail} and without an upload; a non-success
\* status s of the upload ends it with status s and {ok, error, detail} and
\* without a URL resolution; no 200 is sent in either case.
C8_UpstreamStatusPassedThrough ==
  \A r \in Requests :
    /\ h[r].tts = "notok" =>
         /\ h[r].nUpload = 0 /\ h[r].nSign = 0
         /\ h[r].ttsStatus \in TtsFailStatuses
         /\ Done(r) => /\ h[r].resp.status = h[r].ttsStatus
                       /\ h[r].resp.keys = FailureKeys
    /\ h[r].up = "notok" =>
         /\ h[r].nSign = 0
         /\ h[r].upStatus \in UploadFailStatuses
         /\ Done(r)
         /\ h[r].resp.status = h[r].upStatus
         /\ h[r].resp.keys = FailureKeys

C8_Witness ==
  \E r, q \in Requests :
    /\ h[r].tts = "notok" /\ Done(r) /\ h[r].resp.status = 429
    /\ h[q].up = "notok" /\ Done(q) /\ h[q].resp.status = 413

\* C9: a 202 is sent only when the timeout guard aborted the synthesis call;
\* a synthesis call that fails otherwise is answered as a failure.
C9_ProcessingOnlyOnTimeout ==
  \A r \in Requests :
    /\ h[r].resp.status = 202 => h[r].tts = "timeout"
    /\ h[r].tts = "error" /\ Done(r) => h[r].resp.status >= 400

\* C10: one invocation issues at most one synthesis call, one upload and one
\* sign request.
C10_NoRetry ==
  \A r \in Requests : h[r].nTts <= 1 /\ h[r].nUpload <= 1 /\ h[r].nSign <= 1

C10_Witness ==
  \E r, q \in Requests :
    /\ Done(r) /\ h[r].nTts = 1 /\ h[r].nUpload = 1 /\ h[r].nSign = 1
    /\ Done(q) /\ h[q].up = "notok" /\ h[q].nUpload = 1

\* The awaits that can follow each await of the handler, in the order of the
\* stages: validation (idle), probe, cache hit (sign) or synthesis (tts_*),
\* upload, URL resolution (sign), response (done).
StageAfter(pc) ==
  CASE pc = "idle" -> {"probe_head", "probe_tiny", "done"}
    [] pc = "probe_head" -> {"probe_tiny", "tts_fetch", "done"}
    [] pc = "probe_tiny" -> {"tts_fetch", "sign", "done"}
    [] pc = "tts_fetch" -> {"tts_text", "tts_body", "done"}
    [] pc = "tts_text" -> {"done"}
    [] pc = "tts_body" -> {"upload", "done"}
    [] pc = "upload" -> {"sign", "done"}
    [] pc = "sign" -> {"done"}
    [] OTHER -> {}

\* The statuses of the terminal states of a POST: Rejected, Resolved,
\* ProcessingPending, the 500 error state and UpstreamFailure.
TerminalStatuses == {400, 200, 202, 500} \cup TtsFailStatuses \cup UploadFailStatuses

\* C11: a request passes the stages in order without re-entering one, sends
\* exactly one response, which is that of one terminal state, and runs no
\* step after the response.
C11_OneResponseInOrder ==
  /\ [](\A r \in Requests :
          /\ h[r].resp # NoResp <=> Done(r)
          /\ Done(r) /\ h[r].method = "POST" => h[r].resp.status \in TerminalStatuses
          /\ h[r].nSign > 0 => h[r].exists = "true" \/ h[r].up = "ok")
  /\ [][\A r \in Requests :
          /\ Done(r) => h'[r] = h[r]
          /\ h'[r].pc # h[r].pc => h'[r].pc \in StageAfter(h[r].pc)
          /\ h'[r].resp # h[r].resp => h[r].resp = NoResp]_vars

C11_Witness ==
  \E r, q \in Requests :
    /\ Done(r) /\ h[r].resp.status = 200 /\ h[r].nTts = 1 /\ h[r].nUpload = 1
    /\ h[r].nSign = 1
    /\ Done(q) /\ h[q].resp.status = 200 /\ h[q].exists = "true" /\ h[q].nTts = 0

\* Two probed requests with the same voice and the same canonical text.
SameVoiceCanon(r, q) ==
  /\ h[r].nProbe > 0 /\ h[q].nProbe > 0
  /\ h[r].d.VOICE = h[q].d.VOICE
  /\ h[r].d.normalized = h[q].d.normalized

ObjectsAt(path) == {o \in storage : o.path = path}

\* C12: when two requests with the same voice and canonical text both miss
\* the cache, both may synthesize and upload; an upload to a path that holds
\* an object replaces it and is never refused as a conflict, both requests
\* that succeed end with 200 and the same id, and the storage holds exactly
\* one object at cards/{id}.mp3.
C12_ConcurrentUploadsOverwrite ==
  /\ [](\A r, q \in Requests :
          /\ h[r].upStatus # 409
          /\ Cardinality(ObjectsAt(h[r].d.objectPath)) <= 1
          /\ /\ r # q /\ SameVoiceCanon(r, q)
             /\ h[r].exists = "false" /\ h[q].exists = "false"
             /\ h[r].up = "ok" /\ h[q].up = "ok"
             => /\ h[r].d.id = h[q].d.id
                /\ Cardinality(ObjectsAt(h[r].d.objectPath)) = 1
                /\ \A o \in ObjectsAt(h[r].d.objectPath) : o.audio.by \in {r, q}
                /\ h[r].resp.status = 200 /\ h[q].resp.status = 200
                   => h[r].resp.id = h[q].resp.id)
  /\ [][\A r \in Requests :
          h[r].pc = "upload" /\ h'[r].up = "ok"
          => ObjectsAt(h[r].d.objectPath)' =
               {[path |-> h[r].d.objectPath, audio |-> h[r].mp3Buffer]}]_vars

\* Both requests missed, synthesized while the other was in flight, uploaded
\* and were answered 200; the object is that of the second upload.
C12_Witness ==
  \E r, q \in Requests :
    /\ r # q /\ SameVoiceCanon(r, q)
    /\ h[r].body.title # h[q].body.title
    /\ r \notin h[q].before /\ q \notin h[r].before
    /\ h[r].exists = "false" /\ h[q].exists = "false"
    /\ h[r].up = "ok" /\ h[q].up = "ok"
    /\ h[r].resp.status = 200 /\ h[q].resp.status = 200
    /\ h[r].resp.id = h[q].resp.id
    /\ ObjectsAt(h[r].d.objectPath) =
         {[path |-> h[r].d.objectPath, audio |-> h[q].mp3Buffer]}

\* C13: a POST received while a required configuration value is missing
\* ends with 500 {ok, error} whatever its body, and makes no external call.
C13_MissingConfigEnds500 ==
  \A r \in Requests :
    /\ h[r].pc # "idle" /\ h[r].method = "POST"
    /\ \E n \in EnvNames : env[n] = Undefined
    => /\ Done(r)
       /\ h[r].resp.status = 500 /\ h[r].resp.keys = {"ok", "error"}
       /\ h[r].nProbe = 0 /\ h[r].nTts = 0 /\ h[r].nUpload = 0 /\ h[r].nSign = 0

\* A valid body and a body without text, both answered 500 without the
\* default voice.
C13_Witness ==
  \E r, q \in Requests :
    /\ env.ELEVEN_VOICE_ID = Undefined
    /\ h[r].method = "POST" /\ ~MissingField(h[r].body) /\ h[r].resp.status = 500
    /\ h[q].method = "POST" /\ h[q].body.text = Undefined /\ h[q].resp.status = 500

\* C14: normalizeText is idempotent: normalizeText(normalizeText(x)) equals
\* normalizeText(x) for every string x of letters, spaces, tabs, carriage
\* returns and line feeds.
C14_NormalizeIdempotent == call.stage = "twice" => call.twice = call.once

\* C15: the string given to the hash is injective in the pair of voice and
\* canonical text, caller-supplied voiceId values included: two pairs that
\* differ never get the same hashed string, and so never the same id through
\* the concatenation.
C15_HashInputInjective ==
  call.stage = "derived" =>
    (<<call.d1.VOICE, call.d1.normalized>> # <<call.d2.VOICE, call.d2.normalized>>
       => call.d1.id.sha256 # call.d2.id.sha256 /\ call.d1.id # call.d2.id)

\* C16: in public-bucket mode, whenever the HEAD does not confirm
\* existence, by a non-success status or by failing, objectExists issues the
\* range request and reports existence if that request answers 2xx or 206.
C16_RangeAfterAnyHeadFailure ==
  \A r \in Requests :
    env.IS_PUBLIC_BUCKET /\ h[r].head \in {"notok", "throw"} =>
      /\ h[r].nProbe = 2
      /\ h[r].tiny = "ok" => h[r].exists = "true"

\* C17: when every probe, upload and sign call returns or throws, every
\* POST request is answered in the end, even if the synthesis service never
\* sends headers or never finishes the body.
C17_EveryPostAnswered == \A r \in Requests : Posted(r) ~> Done(r)

\* The request ended on a path that comes before the upload.
EndedBeforeUpload(r) ==
  /\ Done(r)
  /\ \/ h[r].resp.status \in {400, 202}
     \/ h[r].resp = ErrorRes(500, "Missing environment variables")
     \/ h[r].tts = "notok" /\ h[r].resp.status = h[r].ttsStatus
     \/ h[r].exists = "true"

\* An object in storage holds the bytes request r uploaded.
Wrote(r) == \E o \in storage : o.audio.by = r

\* C18: storage changes only in the upload step of a request whose
\* synthesis call answered 200 (no probe or sign step changes it), and a
\* request that ended with 400, 500 for missing configuration, 202, a
\* synthesis failure status or on the cache-hit path issued no upload and
\* wrote nothing.
C18_OnlyUploadWrites ==
  /\ [](\A r \in Requests :
          EndedBeforeUpload(r) => h[r].nUpload = 0 /\ ~Wrote(r))
  /\ [][storage' # storage =>
          \E r \in Requests :
            /\ h[r].pc = "upload" /\ h'[r].pc # "upload"
            /\ h[r].tts = "ok" /\ h[r].ttsStatus = 200
            /\ storage' = put(storage, h[r].d.objectPath, h[r].mp3Buffer)
            /\ \A q \in Requests \ {r} : h'[q] = h[q]]_vars

C18_Witness ==
  \E r, q \in Requests :
    /\ Done(r) /\ h[r].up = "ok" /\ Wrote(r)
    /\ Done(q) /\ h[q].tts = "notok" /\ h[q].nUpload = 0 /\ ~Wrote(q)

\* The voice of a request: its voiceId when given, the configured default
\* otherwise.
VoiceOf(body) == IF Falsy(body.voiceId) THEN env.ELEVEN_VOICE_ID ELSE body.voiceId

\* C19: every object in storage lies at cards/{id}.mp3 where id is the
\* identifier of the voice and text the synthesis call that made it was
\* given, and these are the voice of the uploading request and the canonical
\* form of its text; title and campaign enter neither.
C19_ObjectMatchesItsId ==
  \A o \in storage :
    /\ o.audio.by \in Requests
    /\ o.path = [folder |-> "cards",
                 id |-> digestN(hashInput(o.audio.voice, o.audio.text), 12)]
    /\ o.audio.voice = VoiceOf(h[o.audio.by].body)
    /\ o.audio.text = normalizeText(trim(h[o.audio.by].body.text))

C19_Witness ==
  \E o, p \in storage :
    /\ ~Falsy(h[o.audio.by].body.voiceId)
    /\ h[o.audio.by].d.narrationText # o.audio.text
    /\ Falsy(h[p.audio.by].body.voiceId)
    /\ h[p.audio.by].body.title # h[o.audio.by].body.title

\* Request r was answered 200 with an id in the body.
Answered200WithId(r) ==
  Done(r) /\ h[r].resp.status = 200 /\ "id" \in h[r].resp.keys

\* C20: a 200 response carrying id is sent only when storage holds an object
\* at cards/{id}.mp3: the probe of the request found it, or the upload of
\* the request to that path was answered with success.
C20_200MeansStored ==
  \A r \in Requests :
    Answered200WithId(r) =>
      /\ h[r].resp.id = h[r].d.id
      /\ ObjectsAt([folder |-> "cards", id |-> h[r].resp.id]) # {}
      /\ \/ h[r].exists = "true" /\ h[r].nUpload = 0
         \/ h[r].exists = "false" /\ h[r].up = "ok"
              /\ h[r].d.objectPath = [folder |-> "cards", id |-> h[r].resp.id]

C20_Witness ==
  \E r, q \in Requests :
    /\ Answered200WithId(r) /\ h[r].up = "ok"
    /\ Answered200WithId(q) /\ h[q].exists = "true"

====
